---- MODULE Spec2Model ----
(***************************************************************************)
(* The financial planning dashboard: the App component (tabs, current      *)
(* results, loading flag, scenario store), the parameter form, the         *)
(* scenario manager and the results view.                                  *)
(*                                                                         *)
(* Conventions.                                                            *)
(*  - A free-text string is the sequence of its characters, a run of       *)
(*    non-space characters being written as one element:                   *)
(*    'React UI Analysis' is <<"React", " ", "UI", " ", "Analysis">>.      *)
(*  - Rates are written in units of 1/10000 (0.0356 is 356).               *)
(*  - null is the record Null.                                             *)
(*  - A component shown inside a TabPanel is mounted only while its tab is *)
(*    the active one, so its useState fields hold their initial values     *)
(*    whenever another tab is active.                                      *)
(***************************************************************************)
EXTENDS Integers, Sequences, FiniteSets, TLC

VARIABLES
    tabValue,            \* App: index of the active tab
    results,             \* App: FinancialData | null
    loading,             \* App: a model request is being processed
    scenarios,           \* App: the scenario store
    parameters,          \* ParameterInput: the form state
    selectedScenario,    \* ParameterInput: name of the loaded predefined scenario
    saveDialogOpen,      \* ScenarioManager
    scenarioName,        \* ScenarioManager
    scenarioDescription, \* ScenarioManager
    compareMode,         \* ScenarioManager
    selectedScenarios,   \* ScenarioManager: ids selected for comparison
    pc,                  \* handleParameterSubmit: "idle", "fetch" or "json"
    body,                \* the body (JSON) of the request in flight
    requests,            \* number of requests submitted so far
    answered,            \* the body of the request that `results` answers
    now,                 \* the last reading of the clock (Date.now())
    view,                \* what ResultsDisplay rendered last
    exported,            \* the file Export All downloaded last
    script               \* start_full_ui.sh: the state of the shell that runs it

vars == <<tabValue, results, loading, scenarios, parameters, selectedScenario,
          saveDialogOpen, scenarioName, scenarioDescription, compareMode,
          selectedScenarios, pc, body, requests, answered, now, view, exported, script>>

appVars == <<tabValue, results, loading, scenarios>>
formVars == <<parameters, selectedScenario>>
managerVars == <<saveDialogOpen, scenarioName, scenarioDescription, compareMode,
                 selectedScenarios>>
requestVars == <<pc, body, requests, answered>>
uiVars == <<appVars, formVars, managerVars, requestVars, now, view, exported>>

----------------------------------------------------------------------------
(* Bounds of the model. *)

MaxRequests == 2    \* requests submitted in one behaviour
MaxScenarios == 2   \* scenarios saved in one behaviour
MaxYears == 3       \* years in a value series
Precision == 5      \* bits of the significand of a number

Null == [null |-> TRUE]

----------------------------------------------------------------------------
(* Strings. *)

IsSpace(c) == c = " "

RECURSIVE TrimStart(_)
TrimStart(s) ==
    IF s # <<>> /\ IsSpace(Head(s)) THEN TrimStart(Tail(s)) ELSE s

RECURSIVE TrimEnd(_)
TrimEnd(s) ==
    IF s # <<>> /\ IsSpace(s[Len(s)]) THEN TrimEnd(SubSeq(s, 1, Len(s) - 1)) ELSE s

TrimNothing(s) == s

\* String.prototype.trim
Trim(s) == TrimEnd(TrimStart(s))

----------------------------------------------------------------------------
(* types/FinancialTypes.ts *)

DEFAULT_SCENARIOS ==
    << [name |-> <<"Conservative", " ", "Growth">>,
        description |->
          <<"Low-risk", " ", "scenario", " ", "with", " ", "modest",
            " ", "growth", " ", "projections">>,
        parameters |->
          [capex |-> 5000,
           gaPersonnelRates |-> <<300, 280, 260, 240, 220>>,
           gaNonPersonnelRates |-> <<350, 330, 310, 290, 270>>,
           rdPersonnelRates |-> <<800, 750, 700, 650, 600>>,
           rdNonPersonnelRates |-> <<250, 240, 230, 220, 210>>,
           globalSaasCogs |-> 8000,
           interestIncome |-> 150,
           lineItem |-> "Income Statement : GAAP Net Income : GAAP Net Income"]],
       [name |-> <<"Aggressive", " ", "Expansion">>,
        description |->
          <<"High-growth", " ", "scenario", " ", "with", " ",
            "increased", " ", "investments">>,
        parameters |->
          [capex |-> 15000,
           gaPersonnelRates |-> <<450, 420, 400, 380, 360>>,
           gaNonPersonnelRates |-> <<500, 480, 460, 440, 420>>,
           rdPersonnelRates |-> <<1200, 1150, 1100, 1050, 1000>>,
           rdNonPersonnelRates |-> <<400, 380, 360, 340, 320>>,
           globalSaasCogs |-> 9000,
           interestIncome |-> 80,
           lineItem |-> "Income Statement : Revenue : Total Revenue"]],
       [name |-> <<"Balanced", " ", "Portfolio">>,
        description |->
          <<"Moderate", " ", "growth", " ", "with", " ", "balanced",
            " ", "risk/return">>,
        parameters |->
          [capex |-> 8000,
           gaPersonnelRates |-> <<356, 338, 321, 289, 284>>,
           gaNonPersonnelRates |-> <<413, 410, 390, 370, 352>>,
           rdPersonnelRates |-> <<929, 910, 890, 880, 880>>,
           rdNonPersonnelRates |-> <<312, 310, 290, 290, 290>>,
           globalSaasCogs |-> 8430,
           interestIncome |-> 100,
           lineItem |-> "Balance Sheet : Total Assets : Total Assets"]] >>

LINE_ITEM_OPTIONS ==
    << "Income Statement : GAAP Net Income : GAAP Net Income",
       "Income Statement : Revenue : Total Revenue",
       "Balance Sheet : Total Assets : Total Assets",
       "Cash Flow : Operating Cash Flow : Operating Cash Flow" >>

----------------------------------------------------------------------------
(* Initial state of the components. *)

InitialParametersOtherLineItem ==
    [capex |-> 8000,
     existingLeases |-> <<>>,
     existingPPELife |-> 15,
     newPPELife |-> 15,
     gaPersonnelRates |-> <<356, 338, 321, 289, 284>>,
     gaNonPersonnelRates |-> <<413, 410, 390, 370, 352>>,
     rdPersonnelRates |-> <<929, 910, 890, 880, 880>>,
     rdNonPersonnelRates |-> <<312, 310, 290, 290, 290>>,
     globalSaasCogs |-> 8430,
     interestIncome |-> 100,
     lineItem |-> "Income Statement : GAAP Net Income",
     callPurpose |-> <<"React", " ", "UI", " ", "Analysis">>]

\* ParameterInput: useState<FinancialParameters>({...})
InitialParameters ==
    [capex |-> 8000,
     existingLeases |-> <<>>,
     existingPPELife |-> 15,
     newPPELife |-> 15,
     gaPersonnelRates |-> <<356, 338, 321, 289, 284>>,
     gaNonPersonnelRates |-> <<413, 410, 390, 370, 352>>,
     rdPersonnelRates |-> <<929, 910, 890, 880, 880>>,
     rdNonPersonnelRates |-> <<312, 310, 290, 290, 290>>,
     globalSaasCogs |-> 8430,
     interestIncome |-> 100,
     lineItem |-> "Income Statement : GAAP Net Income : GAAP Net Income",
     callPurpose |-> <<"React", " ", "UI", " ", "Analysis">>]

\* ParameterInput is mounted: its state is the useState initial values
FormMounted ==
    /\ parameters' = InitialParameters
    /\ selectedScenario' = <<>>

\* ScenarioManager is mounted: its state is the useState initial values
ManagerMounted ==
    /\ saveDialogOpen' = FALSE
    /\ scenarioName' = <<>>
    /\ scenarioDescription' = <<>>
    /\ compareMode' = FALSE
    /\ selectedScenarios' = <<>>

\* TabPanel renders its children only while value = index: a change of the
\* active tab unmounts the panel that was shown and mounts the new one.
TabPanel(newValue) ==
    /\ tabValue' = newValue
    /\ IF newValue = tabValue
         THEN UNCHANGED <<formVars, managerVars>>
         ELSE FormMounted /\ ManagerMounted

----------------------------------------------------------------------------
(* JavaScript numbers: binary floating point, every operation rounding   *)
(* its exact result to the nearest number with a significand of Precision  *)
(* bits, ties to the even significand (IEEE 754 binary64 keeps 53 bits;    *)
(* exponents are not limited here). A finite number is written as the      *)
(* exact fraction num/den it equals, in lowest terms with den > 0; the     *)
(* other values are Infinity, -Infinity and NaN.                           *)

RECURSIVE GCD(_, _)
GCD(a, b) == IF b = 0 THEN a ELSE GCD(b, a % b)

AbsInt(n) == IF n < 0 THEN -n ELSE n

RECURSIVE Pow2(_)
Pow2(k) == IF k = 0 THEN 1 ELSE 2 * Pow2(k - 1)

Fin(n, d) ==
    LET g == GCD(AbsInt(n), d)
    IN [kind |-> "finite", num |-> n \div g, den |-> d \div g]

Num(n) == Fin(n, 1)
PosInf == [kind |-> "Infinity"]
NegInf == [kind |-> "-Infinity"]
NaN == [kind |-> "NaN"]

\* n / d to the nearest integer, a tie to the even one (n >= 0, d > 0)
RoundHalfEven(n, d) ==
    LET q == n \div d
        r == n % d
    IN IF 2 * r < d THEN q
       ELSE IF 2 * r > d THEN q + 1
       ELSE IF q % 2 = 0 THEN q ELSE q + 1

\* n / d > 0 to the nearest number with Precision significant bits
RECURSIVE RoundPositive(_, _)
RoundPositive(n, d) ==
    IF n >= Pow2(Precision) * d
      THEN LET r == RoundPositive(n, 2 * d) IN Fin(2 * r.num, r.den)
    ELSE IF n < Pow2(Precision - 1) * d
      THEN LET r == RoundPositive(2 * n, d) IN Fin(r.num, 2 * r.den)
    ELSE Num(RoundHalfEven(n, d))

\* the number that the exact result n / d (d > 0) of an operation becomes
Round(n, d) ==
    IF n = 0 THEN Num(0)
    ELSE IF n > 0 THEN RoundPositive(n, d)
    ELSE LET r == RoundPositive(-n, d) IN Fin(-r.num, r.den)

\* a - b, of finite numbers
JsSub(a, b) == Round(a.num * b.den - b.num * a.den, a.den * b.den)

\* a + b, of finite numbers
JsAdd(a, b) == Round(a.num * b.den + b.num * a.den, a.den * b.den)

\* Math.abs, of a finite number
MathAbs(a) == Fin(AbsInt(a.num), a.den)

\* a / b, of finite numbers, b >= 0
JsDiv(a, b) ==
    IF b.num = 0
      THEN IF a.num = 0 THEN NaN ELSE IF a.num > 0 THEN PosInf ELSE NegInf
      ELSE Round(a.num * b.den, a.den * b.num)

\* x * k, k a positive integer
JsTimes(x, k) == IF x.kind = "finite" THEN Round(x.num * k, x.den) ELSE x

\* a > b, of finite numbers
JsGt(a, b) == a.num * b.den > b.num * a.den

\* the condition of `x ? a : b`, x a number or null
Truthy(x) == x # Null /\ x # NaN /\ ~(x.kind = "finite" /\ x.num = 0)

----------------------------------------------------------------------------
(* JSON. A JSON object is written as the sequence of its <<name, value>>   *)
(* members in document order, a JSON array as the sequence of its          *)
(* elements.                                                               *)

\* JSON.stringify of a FinancialParameters object: its own properties, in
\* the order in which the object literals of the program create them
JsonOfParameters(p) ==
    << <<"capex", p.capex>>,
       <<"existingLeases", p.existingLeases>>,
       <<"existingPPELife", p.existingPPELife>>,
       <<"newPPELife", p.newPPELife>>,
       <<"gaPersonnelRates", p.gaPersonnelRates>>,
       <<"gaNonPersonnelRates", p.gaNonPersonnelRates>>,
       <<"rdPersonnelRates", p.rdPersonnelRates>>,
       <<"rdNonPersonnelRates", p.rdNonPersonnelRates>>,
       <<"globalSaasCogs", p.globalSaasCogs>>,
       <<"interestIncome", p.interestIncome>>,
       <<"lineItem", p.lineItem>>,
       <<"callPurpose", p.callPurpose>> >>

\* JSON.stringify of a FinancialData object: the text holds its content,
\* not the identity of the object
JsonOfData(data) == << <<"results", data.results>> >>

\* JSON.stringify of a ScenarioData object
JsonOfScenario(scenario) ==
    << <<"id", scenario.id>>,
       <<"name", scenario.name>>,
       <<"description", scenario.description>>,
       <<"parameters", JsonOfParameters(scenario.parameters)>>,
       <<"results", JsonOfData(scenario.results)>>,
       <<"createdAt", scenario.createdAt>> >>

JsonStringifyNewestFirst(list) ==
    [i \in DOMAIN list |-> JsonOfScenario(list[Len(list) + 1 - i])]

\* JSON.stringify(scenarios, null, 2)
JsonStringify(list) == [i \in DOMAIN list |-> JsonOfScenario(list[i])]

----------------------------------------------------------------------------
(* The model API. *)

\* The per-year value series a JSON object holds, as its <<year, value>>
\* members in document order.
ModelOutput == << <<2025, Num(100)>>, <<2026, Num(120)>> >>

\* The object `await response.json()` builds for the n-th request. Every
\* call builds a new object; `response` is that object's identity.
Response(n) == [response |-> n, results |-> <<ModelOutput>>]

----------------------------------------------------------------------------
(* App *)

\* handleTabChange, reached from the Tabs bar. The bar is covered while the
\* (modal) save dialog is open; Tabs reports only a change of the value.
HandleTabChange(newValue) ==
    /\ ~saveDialogOpen
    /\ newValue # tabValue
    /\ TabPanel(newValue)
    /\ UNCHANGED <<results, loading, scenarios, requestVars, now, view, exported, script>>

\* the body of the request: headers 'Content-Type': 'application/json',
\* body: JSON.stringify(parameters)
Body(p) == [contentType |-> "application/json", text |-> JsonOfParameters(p)]

HandleParameterSubmitClearsResults(p) ==
    /\ requests < MaxRequests
    /\ loading' = TRUE
    /\ results' = Null
    /\ pc' = "fetch"
    /\ body' = Body(p)
    /\ requests' = requests + 1
    /\ UNCHANGED <<tabValue, scenarios, formVars, managerVars,
                   answered, now, view, exported, script>>

\* handleParameterSubmit up to the first await: setLoading(true), and
\* fetch(...) with the body JSON.stringify(parameters)
HandleParameterSubmit(p) ==
    /\ requests < MaxRequests
    /\ loading' = TRUE
    /\ pc' = "fetch"
    /\ body' = Body(p)
    /\ requests' = requests + 1
    /\ UNCHANGED <<tabValue, results, scenarios, formVars, managerVars,
                   answered, now, view, exported, script>>

RequestFailedKeepsLoading ==
    /\ pc' = "idle"
    /\ body' = Null
    /\ UNCHANGED <<tabValue, results, loading, scenarios, formVars, managerVars,
                   requests, answered, now, view, exported, script>>

\* else branch / catch branch, then finally: console.error, setLoading(false)
RequestFailed ==
    /\ loading' = FALSE
    /\ pc' = "idle"
    /\ body' = Null
    /\ UNCHANGED <<tabValue, results, scenarios, formVars, managerVars,
                   requests, answered, now, view, exported, script>>

\* fetch resolves with response.ok: the handler awaits response.json()
FetchOk ==
    /\ pc = "fetch"
    /\ pc' = "json"
    /\ UNCHANGED <<appVars, formVars, managerVars, body, requests, answered,
                   now, view, exported, script>>

\* fetch resolves with a response that is not ok
FetchNotOk ==
    /\ pc = "fetch"
    /\ RequestFailed

\* fetch rejects (network error)
FetchThrows ==
    /\ pc = "fetch"
    /\ RequestFailed

\* response.json() rejects (the body is not JSON)
JsonThrows ==
    /\ pc = "json"
    /\ RequestFailed

JsonOkKeepsTab ==
    /\ pc = "json"
    /\ results' = Response(requests)
    /\ loading' = FALSE
    /\ pc' = "idle"
    /\ answered' = body
    /\ body' = Null
    /\ UNCHANGED <<tabValue, scenarios, formVars, managerVars, requests, now,
                   view, exported, script>>

\* response.json() resolves: setResults(data), setTabValue(1), then finally
\* setLoading(false); the three updates are rendered together.
JsonOk ==
    /\ pc = "json"
    /\ results' = Response(requests)
    /\ TabPanel(1)
    /\ loading' = FALSE
    /\ pc' = "idle"
    /\ answered' = body
    /\ body' = Null
    /\ UNCHANGED <<scenarios, requests, now, view, exported, script>>

handleScenarioSavePrepends(prev, scenario) == <<scenario>> \o prev

\* handleScenarioSave: setScenarios(prev => [...prev, scenario])
handleScenarioSave(prev, scenario) == Append(prev, scenario)

\* handleScenarioLoad: the scenario is not used; setTabValue(0)
HandleScenarioLoad(scenario) ==
    /\ TabPanel(0)
    /\ UNCHANGED <<results, loading, scenarios, requestVars, view, exported, script>>

----------------------------------------------------------------------------
(* ParameterInput *)

\* handleInputChange: setParameters(prev => ({...prev, [field]: value}))
HandleInputChange(field, value) ==
    /\ tabValue = 0
    /\ parameters' = [parameters EXCEPT ![field] = value]
    /\ UNCHANGED <<appVars, selectedScenario, managerVars, requestVars, now, view, exported, script>>

\* Number(e.target.value) of a field of type number. The value of such a
\* field is the empty string, written <<>>, or a numeral, written <<n>> for
\* the numeral of n.
JsNumber(text) == IF text = <<>> THEN 0 ELSE text[1]

HandleRateChangeAppends(rateType, index, value) ==
    /\ tabValue = 0
    /\ parameters' = [parameters EXCEPT ![rateType] = Append(@, value)]
    /\ UNCHANGED <<appVars, selectedScenario, managerVars, requestVars, now, view, exported, script>>

\* handleRateChange (index counts from 0):
\* prev[rateType].map((rate, i) => i === index ? value : rate)
HandleRateChange(rateType, index, value) ==
    /\ tabValue = 0
    /\ parameters' =
          [parameters EXCEPT ![rateType] =
              [i \in DOMAIN @ |-> IF i - 1 = index THEN value ELSE @[i]]]
    /\ UNCHANGED <<appVars, selectedScenario, managerVars, requestVars, now, view, exported, script>>

HandleSubmitWhileLoading ==
    /\ tabValue = 0
    /\ HandleParameterSubmit(parameters)

HandleSubmitInitial ==
    /\ tabValue = 0
    /\ ~loading
    /\ HandleParameterSubmit(InitialParameters)

\* handleSubmit, reached from the Run Financial Model button
\* (disabled={loading}): onSubmit(parameters)
HandleSubmit ==
    /\ tabValue = 0
    /\ ~loading
    /\ HandleParameterSubmit(parameters)

LoadScenarioIntoInitial(scenarioName_) ==
    /\ tabValue = 0
    /\ LET found == {k \in DOMAIN DEFAULT_SCENARIOS :
                        DEFAULT_SCENARIOS[k].name = scenarioName_}
       IN IF found # {}
            THEN LET scenario == DEFAULT_SCENARIOS[CHOOSE k \in found : TRUE]
                     preset == scenario.parameters
                 IN /\ parameters' =
                         [f \in DOMAIN parameters |->
                            IF f = "callPurpose"
                              THEN <<"React", " ", "UI", " ", "-", " ">> \o scenarioName_
                              ELSE IF f \in DOMAIN preset THEN preset[f]
                                                         ELSE InitialParameters[f]]
                    /\ selectedScenario' = scenarioName_
            ELSE UNCHANGED formVars
    /\ UNCHANGED <<appVars, managerVars, requestVars, now, view, exported, script>>

\* loadScenario, reached from the Select Scenario menu
LoadScenario(scenarioName_) ==
    /\ tabValue = 0
    /\ LET found == {k \in DOMAIN DEFAULT_SCENARIOS :
                        DEFAULT_SCENARIOS[k].name = scenarioName_}
       IN IF found # {}
            THEN LET scenario == DEFAULT_SCENARIOS[CHOOSE k \in found :
                                                     \A j \in found : k <= j]
                     preset == scenario.parameters
                 IN /\ parameters' =
                         [f \in DOMAIN parameters |->
                            IF f = "callPurpose"
                              THEN <<"React", " ", "UI", " ", "-", " ">> \o scenarioName_
                              ELSE IF f \in DOMAIN preset THEN preset[f]
                                                         ELSE parameters[f]]
                    /\ selectedScenario' = scenarioName_
            ELSE UNCHANGED formVars
    /\ UNCHANGED <<appVars, managerVars, requestVars, now, view, exported, script>>

----------------------------------------------------------------------------
(* ScenarioManager *)

\* Date.now(): the clock never runs backwards; two readings may be equal
ClockReadings == {now, now + 1}

\* Date.now().toString(): the decimal digits of the reading
TimeId(t) == [digits |-> t]

\* the id under which a predefined scenario is selected and loaded: its name
NameId(name) == [text |-> name]

NewScenarioWithoutResults(t) ==
    [id |-> TimeId(t), name |-> Trim(scenarioName),
     description |-> Trim(scenarioDescription),
     parameters |-> [callPurpose |-> scenarioName],
     results |-> Null, createdAt |-> t]

\* the ScenarioData object handleSaveScenario builds at clock reading t
NewScenario(t) ==
    [id |-> TimeId(t),
     name |-> Trim(scenarioName),
     description |-> Trim(scenarioDescription),
     parameters |->
       [capex |-> 0,
        existingLeases |-> <<>>,
        existingPPELife |-> 15,
        newPPELife |-> 15,
        gaPersonnelRates |-> <<>>,
        gaNonPersonnelRates |-> <<>>,
        rdPersonnelRates |-> <<>>,
        rdNonPersonnelRates |-> <<>>,
        globalSaasCogs |-> 0,
        interestIncome |-> 0,
        lineItem |-> "",
        callPurpose |-> scenarioName],
     results |-> results,
     createdAt |-> t]

\* Save Current Analysis button (disabled={!currentResults})
OpenSaveDialog ==
    /\ tabValue = 2
    /\ ~saveDialogOpen
    /\ results # Null
    /\ saveDialogOpen' = TRUE
    /\ UNCHANGED <<appVars, formVars, scenarioName, scenarioDescription,
                   compareMode, selectedScenarios, requestVars, now, view, exported, script>>

\* Cancel button, or the dialog's onClose
CloseSaveDialog ==
    /\ tabValue = 2
    /\ saveDialogOpen
    /\ saveDialogOpen' = FALSE
    /\ UNCHANGED <<appVars, formVars, scenarioName, scenarioDescription,
                   compareMode, selectedScenarios, requestVars, now, view, exported, script>>

\* Scenario Name field: setScenarioName(e.target.value)
SetScenarioName(value) ==
    /\ tabValue = 2
    /\ saveDialogOpen
    /\ scenarioName' = value
    /\ UNCHANGED <<appVars, formVars, saveDialogOpen, scenarioDescription,
                   compareMode, selectedScenarios, requestVars, now, view, exported, script>>

\* Description field: setScenarioDescription(e.target.value)
SetScenarioDescription(value) ==
    /\ tabValue = 2
    /\ saveDialogOpen
    /\ scenarioDescription' = value
    /\ UNCHANGED <<appVars, formVars, saveDialogOpen, scenarioName,
                   compareMode, selectedScenarios, requestVars, now, view, exported, script>>

\* handleSaveScenario, reached from the Save Scenario button
\* (disabled={!scenarioName.trim()})
HandleSaveScenario ==
    /\ tabValue = 2
    /\ saveDialogOpen
    /\ Trim(scenarioName) # <<>>
    /\ Len(scenarios) < MaxScenarios
    /\ IF Trim(scenarioName) # <<>> /\ results # Null
         THEN \E t \in ClockReadings :
                /\ now' = t
                /\ scenarios' = handleScenarioSave(scenarios, NewScenario(t))
                /\ saveDialogOpen' = FALSE
                /\ scenarioName' = <<>>
                /\ scenarioDescription' = <<>>
         ELSE UNCHANGED <<now, scenarios, saveDialogOpen, scenarioName,
                          scenarioDescription>>
    /\ UNCHANGED <<tabValue, results, loading, formVars, compareMode,
                   selectedScenarios, requestVars, view, exported, script>>

\* new Date().toISOString().split('T')[0]: the UTC day of the reading t, a
\* number of milliseconds since the epoch
IsoDate(t) == [day |-> t \div 86400000]

\* exportScenarios, reached from the Export All button
\* (disabled={scenarios.length === 0}): the browser downloads the text
ExportScenarios ==
    /\ tabValue = 2
    /\ ~saveDialogOpen
    /\ Len(scenarios) # 0
    /\ \E t \in ClockReadings :
          exported' = [download |-> <<"financial-scenarios-", IsoDate(t), ".json">>,
                       text |-> JsonStringify(scenarios)]
    /\ UNCHANGED <<appVars, formVars, managerVars, requestVars, now, view, script>>

\* Compare Scenarios / Exit Compare button: setCompareMode(!compareMode)
ToggleCompareMode ==
    /\ tabValue = 2
    /\ ~saveDialogOpen
    /\ compareMode' = ~compareMode
    /\ UNCHANGED <<appVars, formVars, saveDialogOpen, scenarioName,
                   scenarioDescription, selectedScenarios, requestVars, now, view, exported, script>>

Includes(seq, x) == \E i \in DOMAIN seq : seq[i] = x

FilterEverything(seq, x) == <<>>

\* Array.prototype.filter(id => id !== x)
Filter(seq, x) == SelectSeq(seq, LAMBDA id : id # x)

SliceNothing(seq, n) == seq

\* Array.prototype.slice(0, n)
Slice0(seq, n) == SubSeq(seq, 1, IF Len(seq) < n THEN Len(seq) ELSE n)

\* handleScenarioSelect
HandleScenarioSelect(scenarioId) ==
    /\ IF compareMode
         THEN selectedScenarios' =
                IF Includes(selectedScenarios, scenarioId)
                  THEN Filter(selectedScenarios, scenarioId)
                  ELSE Slice0(Append(selectedScenarios, scenarioId), 3)
         ELSE UNCHANGED selectedScenarios
    /\ UNCHANGED <<appVars, formVars, saveDialogOpen, scenarioName,
                   scenarioDescription, compareMode, requestVars, now, view, exported, script>>

\* the ids of the list items shown: predefined scenarios, then saved ones
ListedIds ==
    {NameId(DEFAULT_SCENARIOS[k].name) : k \in DOMAIN DEFAULT_SCENARIOS}
        \cup {scenarios[i].id : i \in DOMAIN scenarios}

\* ListItem onClick: compareMode && handleScenarioSelect(id)
ClickScenario(scenarioId) ==
    /\ tabValue = 2
    /\ ~saveDialogOpen
    /\ compareMode
    /\ scenarioId \in ListedIds
    /\ HandleScenarioSelect(scenarioId)

\* Chip onDelete in the Scenario Comparison card, which is shown when
\* compareMode && selectedScenarios.length > 1
DeleteChip(scenarioId) ==
    /\ tabValue = 2
    /\ ~saveDialogOpen
    /\ compareMode
    /\ Len(selectedScenarios) > 1
    /\ Includes(selectedScenarios, scenarioId)
    /\ HandleScenarioSelect(scenarioId)

\* play button of a predefined scenario: onLoad of a ScenarioData built from it
LoadPredefined(k) ==
    /\ tabValue = 2
    /\ ~saveDialogOpen
    /\ k \in DOMAIN DEFAULT_SCENARIOS
    /\ HandleScenarioLoad([id |-> DEFAULT_SCENARIOS[k].name,
                           name |-> DEFAULT_SCENARIOS[k].name,
                           description |-> DEFAULT_SCENARIOS[k].description,
                           parameters |-> DEFAULT_SCENARIOS[k].parameters,
                           createdAt |-> now])
    /\ UNCHANGED now

\* play button of a saved scenario: onLoad(scenario)
LoadSaved(i) ==
    /\ tabValue = 2
    /\ ~saveDialogOpen
    /\ i \in DOMAIN scenarios
    /\ HandleScenarioLoad(scenarios[i])
    /\ UNCHANGED now

----------------------------------------------------------------------------
(* start_full_ui.sh. The state of the shell: pc is the line it is about  *)
(* to run; cwd is the working directory, as the path from the directory    *)
(* the script was started in; a shell variable holds a string, <<>> when   *)
(* unset, <<n>> for the numeral of n; checks records how each dependency   *)
(* check ended; started lists the servers launched, running is the set of  *)
(* their processes that are alive; status is the exit status.              *)

ScriptStart ==
    [pc |-> "line10",
     cwd |-> <<>>,
     checks |-> [k \in {"python3", "npm", "pip3 install", "npm install"} |-> "pending"],
     trap |-> FALSE,
     BACKEND_PID |-> <<>>,
     FRONTEND_PID |-> <<>>,
     started |-> <<>>,
     running |-> {},
     status |-> <<>>]

\* the process ids the system hands out
Pids == {4001, 4002}

\* exit n
Exit(sh, n) == [sh EXCEPT !.pc = "exited", !.status = <<n>>]

\* cd dir, which succeeds (ok) or fails; the script goes on in both cases
Cd(sh, dir, ok) ==
    IF ~ok THEN sh
    ELSE IF dir = ".." /\ sh.cwd # <<>> /\ sh.cwd[Len(sh.cwd)] # ".."
      THEN [sh EXCEPT !.cwd = SubSeq(sh.cwd, 1, Len(sh.cwd) - 1)]
      ELSE [sh EXCEPT !.cwd = Append(sh.cwd, dir)]

\* line 10: command -v python3 || { echo ...; exit 1; }
CheckPython3 ==
    /\ script.pc = "line10"
    /\ \E found \in BOOLEAN :
          script' = IF found
                      THEN [script EXCEPT !.pc = "line11", !.checks["python3"] = "passed"]
                      ELSE Exit([script EXCEPT !.checks["python3"] = "failed"], 1)
    /\ UNCHANGED uiVars

\* line 11: command -v npm || { echo ...; exit 1; }
CheckNpm ==
    /\ script.pc = "line11"
    /\ \E found \in BOOLEAN :
          script' = IF found
                      THEN [script EXCEPT !.pc = "line17", !.checks["npm"] = "passed"]
                      ELSE Exit([script EXCEPT !.checks["npm"] = "failed"], 1)
    /\ UNCHANGED uiVars

\* lines 17, 23, 27, 33: cd <dir>
CdLine(line, dir, next) ==
    /\ script.pc = line
    /\ \E ok \in (IF dir = ".." THEN {TRUE} ELSE BOOLEAN) :
          script' = [Cd(script, dir, ok) EXCEPT !.pc = next]
    /\ UNCHANGED uiVars

\* lines 18-22: pip3 install -r requirements.txt; exit 1 when $? is not 0
PipInstall ==
    /\ script.pc = "line18"
    /\ \E ok \in BOOLEAN :
          script' = IF ok
                      THEN [script EXCEPT !.pc = "line23",
                                          !.checks["pip3 install"] = "passed"]
                      ELSE Exit([script EXCEPT !.checks["pip3 install"] = "failed"], 1)
    /\ UNCHANGED uiVars

NpmInstallGoesOn ==
    /\ script.pc = "line28"
    /\ \E ok \in BOOLEAN :
          script' = IF ok
                      THEN [script EXCEPT !.pc = "line33",
                                          !.checks["npm install"] = "passed"]
                      ELSE [script EXCEPT !.pc = "line33",
                                          !.checks["npm install"] = "failed"]
    /\ UNCHANGED uiVars

\* lines 28-32: npm install; exit 1 when $? is not 0
NpmInstall ==
    /\ script.pc = "line28"
    /\ \E ok \in BOOLEAN :
          script' = IF ok
                      THEN [script EXCEPT !.pc = "line33",
                                          !.checks["npm install"] = "passed"]
                      ELSE Exit([script EXCEPT !.checks["npm install"] = "failed"], 1)
    /\ UNCHANGED uiVars

\* line 73: trap cleanup SIGINT SIGTERM
SetTrap ==
    /\ script.pc = "line73"
    /\ script' = [script EXCEPT !.pc = "line76", !.trap = TRUE]
    /\ UNCHANGED uiVars

\* line 76, start_backend: cd backend; python3 app.py &; BACKEND_PID=$!; cd ..
StartBackend ==
    /\ script.pc = "line76"
    /\ \E ok \in BOOLEAN, pid \in Pids \ script.running :
          script' = [Cd(Cd(script, "backend", ok), "..", TRUE) EXCEPT
                        !.pc = "line77",
                        !.BACKEND_PID = <<pid>>,
                        !.started = Append(@, "backend"),
                        !.running = @ \cup {pid}]
    /\ UNCHANGED uiVars

\* line 77: sleep 3
Sleep ==
    /\ script.pc = "line77"
    /\ script' = [script EXCEPT !.pc = "line78"]
    /\ UNCHANGED uiVars

\* line 78, start_frontend: cd financial-planning-ui; npm start &;
\* FRONTEND_PID=$!; cd ..; then the echo lines 80-86
StartFrontend ==
    /\ script.pc = "line78"
    /\ \E ok \in BOOLEAN, pid \in Pids \ script.running :
          script' = [Cd(Cd(script, "financial-planning-ui", ok), "..", TRUE) EXCEPT
                        !.pc = "line89",
                        !.FRONTEND_PID = <<pid>>,
                        !.started = Append(@, "frontend"),
                        !.running = @ \cup {pid}]
    /\ UNCHANGED uiVars

\* line 89: wait returns once no child process is left; the script ends
Wait ==
    /\ script.pc = "line89"
    /\ script.running = {}
    /\ script' = Exit(script, 0)
    /\ UNCHANGED uiVars

\* a server process ends by itself
ServerExits(pid) ==
    /\ pid \in script.running
    /\ script' = [script EXCEPT !.running = @ \ {pid}]
    /\ UNCHANGED uiVars

\* SIGINT or SIGTERM arrives after the trap is set: cleanup kills the
\* processes whose ids the variables hold, and exits with status 0
Cleanup ==
    /\ script.trap
    /\ script.pc # "exited"
    /\ script' = [Exit(script, 0) EXCEPT
                     !.running = @ \ {pid \in Pids : <<pid>> \in
                                         {script.BACKEND_PID, script.FRONTEND_PID}}]
    /\ UNCHANGED uiVars

NextStartup ==
    \/ CheckPython3
    \/ CheckNpm
    \/ CdLine("line17", "backend", "line18")
    \/ PipInstall
    \/ CdLine("line23", "..", "line27")
    \/ CdLine("line27", "financial-planning-ui", "line28")
    \/ NpmInstall
    \/ CdLine("line33", "..", "line73")
    \/ SetTrap
    \/ StartBackend
    \/ Sleep
    \/ StartFrontend
    \/ Wait
    \/ \E pid \in Pids : ServerExits(pid)
    \/ Cleanup

----------------------------------------------------------------------------
(* The application. *)

Init ==
    /\ tabValue = 0
    /\ results = Null
    /\ loading = FALSE
    /\ scenarios = <<>>
    /\ parameters = InitialParameters
    /\ selectedScenario = <<>>
    /\ saveDialogOpen = FALSE
    /\ scenarioName = <<>>
    /\ scenarioDescription = <<>>
    /\ compareMode = FALSE
    /\ selectedScenarios = <<>>
    /\ pc = "idle"
    /\ body = Null
    /\ requests = 0
    /\ answered = Null
    /\ now = 0
    /\ view = Null
    /\ exported = Null
    /\ script = ScriptStart

Tabs == 0..2

PredefinedNames == {DEFAULT_SCENARIOS[k].name : k \in DOMAIN DEFAULT_SCENARIOS}

\* what the user types into the Scenario Name field
NameInputs == { <<>>, <<" ">>, <<" ", "Plan", " ", "B", " ">> }

\* what the user types into the Description field
DescriptionInputs == { <<" ", "notes">> }

Next ==
    \/ \E k \in DOMAIN DEFAULT_SCENARIOS : LoadPredefined(k)
    \/ \E i \in DOMAIN scenarios : LoadSaved(i)
    \/ \E newValue \in Tabs : HandleTabChange(newValue)
    \/ \E name \in PredefinedNames : LoadScenario(name)
    \/ HandleSubmit
    \/ FetchOk
    \/ FetchNotOk
    \/ FetchThrows
    \/ JsonOk
    \/ JsonThrows
    \/ OpenSaveDialog
    \/ CloseSaveDialog
    \/ \E value \in NameInputs : SetScenarioName(value)
    \/ \E value \in DescriptionInputs : SetScenarioDescription(value)
    \/ HandleSaveScenario

Spec == Init /\ [][Next]_vars

SpecStartup == Init /\ [][NextStartup]_vars

\* C22: a server is started only after python3 and npm were found and both
\* installs succeeded; when one of the four checks fails the script has
\* exited with status 1 and no server was started; the backend is started
\* before the frontend.
C22_StartupOrder ==
    /\ script.started # <<>> =>
          \A k \in DOMAIN script.checks : script.checks[k] = "passed"
    /\ (\E k \in DOMAIN script.checks : script.checks[k] = "failed") =>
          /\ script.pc = "exited"
          /\ script.status = <<1>>
          /\ script.started = <<>>
          /\ script.running = {}
    /\ script.started \in {<<>>, <<"backend">>, <<"backend", "frontend">>}

\* C22 witness: all four checks passed, and the backend and then the
\* frontend were started and are running while the script waits
C22_Witness ==
    /\ script.pc = "line89"
    /\ script.started = <<"backend", "frontend">>
    /\ Cardinality(script.running) = 2
    /\ script.BACKEND_PID # script.FRONTEND_PID

----------------------------------------------------------------------------
(* ResultsDisplay *)

\* the member names of a JSON object whose members are named by years
Names(obj) == {obj[i][1] : i \in DOMAIN obj}

RECURSIVE Ascending(_)
Ascending(S) ==
    IF S = {} THEN <<>>
    ELSE LET least == CHOOSE x \in S : \A y \in S : x <= y
         IN <<least>> \o Ascending(S \ {least})

ObjectKeysInDocumentOrder(obj) == [i \in DOMAIN obj |-> obj[i][1]]

\* Object.keys: integer-like names come in ascending numeric order
ObjectKeys(obj) == Ascending(Names(obj))

\* obj[name]
Member(obj, name) == obj[CHOOSE i \in DOMAIN obj : obj[i][1] = name][2]

ChartDataOfLastSeries(data) ==
    IF Len(data.results) > 0
      THEN LET series == data.results[Len(data.results)]
               keys == ObjectKeys(series)
           IN [i \in DOMAIN keys |->
                 [year |-> keys[i], value |-> Member(series, keys[i])]]
      ELSE <<>>

\* chartData (formattedValue is the display text of value)
ChartData(data) ==
    IF Len(data.results) > 0
      THEN LET keys == ObjectKeys(data.results[1])
           IN [i \in DOMAIN keys |->
                 [year |-> keys[i], value |-> Member(data.results[1], keys[i])]]
      ELSE <<>>

Values(chartData) == [i \in DOMAIN chartData |-> chartData[i].value]

Trend(values) ==
    IF Len(values) > 1
      THEN IF JsGt(values[Len(values)], values[1]) THEN "positive" ELSE "negative"
      ELSE "neutral"

TotalChange(values) ==
    IF Len(values) > 1
      THEN JsTimes(JsDiv(JsSub(values[Len(values)], values[1]), MathAbs(values[1])),
                   100)
      ELSE Num(0)

\* the chip under the Total Change metric
TrendChip(trend) == IF trend = "positive" THEN "Growing" ELSE "Declining"

\* lineChartData: labels and the data of its one dataset
LineChartData(chartData) ==
    [labels |-> [i \in DOMAIN chartData |-> chartData[i].year],
     data |-> [i \in DOMAIN chartData |-> chartData[i].value]]

\* barChartData: labels and the data of its one dataset
BarChartData(chartData) ==
    [labels |-> [i \in DOMAIN chartData |-> chartData[i].year],
     data |-> [i \in DOMAIN chartData |-> chartData[i].value]]

\* the data of the Trend Analysis chart (dataset Year-over-Year Change):
\* labels from chartData.slice(0, -1), data from chartData.slice(1); the
\* label `${a} -> ${b}` is written <<a, "->", b>>
YoYChartData(chartData) ==
    [labels |-> [index \in 1..(Len(chartData) - 1) |->
                   <<chartData[index].year, "->", chartData[index + 1].year>>],
     data |-> [index \in 1..(Len(chartData) - 1) |->
                 LET item == chartData[index + 1]
                     prevValue == chartData[index].value
                 IN JsTimes(JsDiv(JsSub(item.value, prevValue), MathAbs(prevValue)),
                            100)]]

RECURSIVE MathMinFrom(_, _)
MathMinFrom(least, values) ==
    IF values = <<>> THEN least
    ELSE MathMinFrom(IF least = PosInf \/ JsGt(least, Head(values))
                       THEN Head(values) ELSE least,
                     Tail(values))

MathMinFirst(values) == IF values = <<>> THEN PosInf ELSE values[1]

\* Math.min(...values)
MathMin(values) == MathMinFrom(PosInf, values)

RECURSIVE MathMaxFrom(_, _)
MathMaxFrom(greatest, values) ==
    IF values = <<>> THEN greatest
    ELSE MathMaxFrom(IF greatest = NegInf \/ JsGt(Head(values), greatest)
                       THEN Head(values) ELSE greatest,
                     Tail(values))

\* Math.max(...values)
MathMax(values) == MathMaxFrom(NegInf, values)

\* values.reduce((a, b) => a + b, 0)
RECURSIVE ReduceSum(_, _)
ReduceSum(acc, values) ==
    IF values = <<>> THEN acc ELSE ReduceSum(JsAdd(acc, Head(values)), Tail(values))

AvgValue(values) == JsDiv(ReduceSum(Num(0), values), Num(Len(values)))

\* one row of the Detailed Financial Projections table; a cell that shows
\* '-' is [text |-> "-"]
TableRow(chartData, index) ==
    LET row == chartData[index]
        previousValue == IF index > 1 THEN chartData[index - 1].value ELSE Null
        change == IF Truthy(previousValue)
                    THEN JsSub(row.value, previousValue) ELSE Null
        percentChange == IF Truthy(previousValue)
                           THEN JsTimes(JsDiv(change, MathAbs(previousValue)), 100)
                           ELSE Null
    IN [year |-> row.year,
        value |-> row.value,
        change |-> IF change # Null THEN change ELSE [text |-> "-"],
        percentChange |-> IF percentChange # Null THEN percentChange
                                                  ELSE [text |-> "-"]]

\* what ResultsDisplay returns for its props
ResultsDisplay(data, isLoading) ==
    IF isLoading THEN [screen |-> "loading"]
    ELSE IF data = Null THEN [screen |-> "no-data"]
    ELSE LET chartData == ChartData(data)
             values == Values(chartData)
         IN [screen |-> "results",
             chartData |-> chartData,
             lineChartData |-> LineChartData(chartData),
             barChartData |-> BarChartData(chartData),
             yoyChartData |-> YoYChartData(chartData),
             trend |-> Trend(values),
             trendChip |-> TrendChip(Trend(values)),
             totalChange |-> TotalChange(values),
             minValue |-> MathMin(values),
             maxValue |-> MathMax(values),
             avgValue |-> AvgValue(values),
             table |-> [index \in DOMAIN chartData |-> TableRow(chartData, index)]]

\* the Results & Analysis tab is rendered
RenderResults ==
    /\ tabValue = 1
    /\ view' = ResultsDisplay(results, loading)
    /\ UNCHANGED <<appVars, formVars, managerVars, requestVars, now, exported, script>>

----------------------------------------------------------------------------
(* The results view on the responses the model API can give. *)

\* the year keys of a series: "2022", "2023", ...
Years == {2021 + k : k \in 1..MaxYears}

\* the values of a series: -0.75, 0, 0.1015625 and 1
SeriesValues == {Fin(-3, 4), Num(0), Fin(13, 128), Num(1)}

\* the JSON objects with at most MaxYears members, members in any order
SeriesObjects ==
    UNION { {obj \in [1..n -> Years \X SeriesValues] :
                \A i, j \in 1..n : i # j => obj[i][1] # obj[j][1]} : n \in 0..MaxYears }

\* the responses: no series, one series, one series followed by another
ViewData ==
    {[response |-> 1, results |-> r] :
        r \in {<<>>} \cup {<<obj>> : obj \in SeriesObjects}
                     \cup {<<obj, ModelOutput>> : obj \in SeriesObjects}}

InitView ==
    /\ tabValue = 1
    /\ results \in ViewData \cup {Null}
    /\ loading \in BOOLEAN
    /\ scenarios = <<>>
    /\ parameters = InitialParameters
    /\ selectedScenario = <<>>
    /\ saveDialogOpen = FALSE
    /\ scenarioName = <<>>
    /\ scenarioDescription = <<>>
    /\ compareMode = FALSE
    /\ selectedScenarios = <<>>
    /\ pc = IF loading THEN "fetch" ELSE "idle"
    /\ body = IF loading THEN Body(InitialParameters) ELSE Null
    /\ requests = (IF results # Null THEN 1 ELSE 0) + (IF loading THEN 1 ELSE 0)
    /\ answered = IF results # Null THEN Body(InitialParameters) ELSE Null
    /\ now = 0
    /\ view = Null
    /\ exported = Null
    /\ script = ScriptStart

NextView == RenderResults

SpecView == InitView /\ [][NextView]_vars

----------------------------------------------------------------------------
(* What the active tab shows. *)

\* the <Alert> elements on screen, by component and severity (the note of
\* ResultsDisplay on balance sheet items, of severity info, is not among
\* them: the responses here carry no balanceSheetItems)
Alerts ==
    IF tabValue = 0
      THEN {[component |-> "ParameterInput", severity |-> "info"] : x \in {1} \cap
                (IF loading THEN {1} ELSE {})}
    ELSE IF tabValue = 1
      THEN {[component |-> "ResultsDisplay", severity |-> "info"] : x \in {1} \cap
                (IF ~loading /\ results = Null THEN {1} ELSE {})}
    ELSE {[component |-> "ScenarioManager.compareMode", severity |-> "info"] :
              x \in {1} \cap (IF compareMode THEN {1} ELSE {})}
         \cup {[component |-> "ScenarioManager.saved", severity |-> "info"] :
              x \in {1} \cap (IF scenarios = <<>> THEN {1} ELSE {})}
         \cup {[component |-> "ScenarioManager.comparison", severity |-> "success"] :
              x \in {1} \cap (IF compareMode /\ Len(selectedScenarios) > 1
                                THEN {1} ELSE {})}

----------------------------------------------------------------------------
(* Properties of the application. *)

Last(seq) == seq[Len(seq)]

\* a step that saves a scenario
Saves == scenarios' # scenarios

\* a step that submits a request
Submits == requests' # requests

\* a step in which a model request ends without a response being stored
RequestFails == loading /\ ~loading' /\ results' = results

\* the form holds the parameters p of a scenario
FormHolds(p) == \A f \in DOMAIN p : parameters[f] = p[f]

\* C1: every stored scenario's parameters are the parameter object that was
\* submitted in the request whose response is stored as its results: a save
\* stores, next to the current results, the parameters those results answer.
C1_ParametersAreSubmitted ==
    [][Saves =>
         /\ answered # Null
         /\ JsonOfParameters(Last(scenarios').parameters) = answered.text]_vars

\* C2: a saved scenario carries results; they are App.results at the moment
\* the save was confirmed; no later step changes the results of a scenario
\* that is already saved.
C2_ResultsSnapshot ==
    /\ [](\A i \in DOMAIN scenarios : scenarios[i].results # Null)
    /\ [][/\ Saves => (results # Null /\ Last(scenarios').results = results)
          /\ \A i \in DOMAIN scenarios :
                /\ i \in DOMAIN scenarios'
                /\ scenarios'[i].results = scenarios[i].results]_vars

\* C2 witness: a scenario was saved and a later run replaced App.results
C2_Witness ==
    /\ results # Null
    /\ \E i \in DOMAIN scenarios :
          scenarios[i].results # Null /\ scenarios[i].results # results

\* C3: loading a saved or predefined scenario makes the form hold that
\* scenario's parameters and makes Model Parameters the active tab.
C3_LoadFillsForm ==
    [][/\ \A k \in DOMAIN DEFAULT_SCENARIOS :
             LoadPredefined(k) =>
                (tabValue' = 0 /\ FormHolds(DEFAULT_SCENARIOS[k].parameters)')
       /\ \A i \in DOMAIN scenarios :
             LoadSaved(i) => (tabValue' = 0 /\ FormHolds(scenarios[i].parameters)')]_vars

\* C4: a save appends exactly the new scenario: the store grows by one, the
\* scenarios saved before keep their content and position, and the current
\* results, the loading flag and the active tab stay as they are.
C4_SaveAppends ==
    [][Saves =>
         /\ Len(scenarios') = Len(scenarios) + 1
         /\ SubSeq(scenarios', 1, Len(scenarios)) = scenarios
         /\ Last(scenarios').name = Trim(scenarioName)
         /\ Last(scenarios').id = TimeId(now')
         /\ results' = results
         /\ loading' = loading
         /\ tabValue' = tabValue]_vars

\* C4 witness: two saves, the second with another content than the first
C4_Witness ==
    /\ Len(scenarios) = 2
    /\ scenarios[1].id # scenarios[2].id
    /\ scenarios[1].results # scenarios[2].results

C7_FailureIsShown ==
    [][RequestFails => (\E a \in Alerts : a.severity = "error")']_vars

\* C14: results is null until a request has succeeded and changes only when
\* a request succeeds (the response to the request in flight is stored); no
\* scenario is saved before a request has succeeded.
C14_PipelineOrder ==
    /\ [](answered = Null => (results = Null /\ scenarios = <<>>))
    /\ [][/\ results' # results =>
              /\ pc = "json"
              /\ pc' = "idle"
              /\ answered' = body
              /\ results' # Null
              /\ results'.response = requests
          /\ Saves => (answered # Null /\ results # Null)]_vars

\* C14 witness: a request succeeded, its results were saved as a scenario,
\* and the next request is in flight
C14_Witness ==
    /\ answered # Null
    /\ Len(scenarios) = 1
    /\ scenarios[1].results = results
    /\ pc = "fetch"
    /\ requests = 2

----------------------------------------------------------------------------
(* Properties of the results view. *)

\* the results view has rendered the series results[0]
Rendered ==
    /\ view # Null
    /\ view.screen = "results"

\* the series the view is about: results[0], or no member without it
Series == IF Len(results.results) > 0 THEN results.results[1] ELSE <<>>

\* the values of the series, from the earliest year to the latest
RECURSIVE ByYear(_)
ByYear(obj) ==
    IF obj = <<>> THEN <<>>
    ELSE LET i == CHOOSE k \in DOMAIN obj : \A j \in DOMAIN obj : obj[k][1] <= obj[j][1]
         IN <<obj[i][2]>> \o ByYear([k \in 1..(Len(obj) - 1) |->
                                        IF k < i THEN obj[k] ELSE obj[k + 1]])

\* the sum of numbers, each addition rounded
RECURSIVE SumFrom(_, _)
SumFrom(acc, seq) ==
    IF seq = <<>> THEN acc ELSE SumFrom(JsAdd(acc, seq[1]), Tail(seq))

\* no addition of the sum of the values rounds
RECURSIVE SumIsExact(_, _)
SumIsExact(acc, seq) ==
    \/ seq = <<>>
    \/ /\ JsAdd(acc, seq[1])
            = Fin(acc.num * seq[1].den + seq[1].num * acc.den, acc.den * seq[1].den)
       /\ SumIsExact(JsAdd(acc, seq[1]), Tail(seq))

\* minValue is the smallest value, maxValue the largest, avgValue the sum
\* of the values divided by their count
MetricsOf(values) ==
    LET all == {values[i] : i \in DOMAIN values}
    IN /\ view.minValue \in all /\ \A w \in all : ~JsGt(view.minValue, w)
       /\ view.maxValue \in all /\ \A w \in all : ~JsGt(w, view.maxValue)
       /\ view.avgValue = JsDiv(SumFrom(Num(0), values), Num(Len(values)))

\* C8, as claimed: for a non-empty series, minValue is its smallest value,
\* maxValue its largest, avgValue the sum of the values divided by their
\* count, and minValue <= avgValue <= maxValue.
C8_KeyMetrics ==
    (Rendered /\ Series # <<>>) =>
        /\ MetricsOf(ByYear(Series))
        /\ ~JsGt(view.minValue, view.avgValue)
        /\ ~JsGt(view.avgValue, view.maxValue)

\* C8, amended: for a non-empty series, minValue is its smallest value,
\* maxValue its largest, avgValue the sum of the values divided by their
\* count; minValue <= avgValue <= maxValue when no addition of the sum
\* rounds.
C8_KeyMetricsExactSum ==
    (Rendered /\ Series # <<>>) =>
        /\ MetricsOf(ByYear(Series))
        /\ SumIsExact(Num(0), ByYear(Series)) =>
              /\ ~JsGt(view.minValue, view.avgValue)
              /\ ~JsGt(view.avgValue, view.maxValue)

\* C8 witness: three years whose sum is exact, the smallest value not in
\* the first year, the mean strictly between the smallest and the largest
C8_Witness ==
    /\ Rendered
    /\ Len(Series) = 3
    /\ SumIsExact(Num(0), ByYear(Series))
    /\ view.minValue # view.chartData[1].value
    /\ view.avgValue.den # 1
    /\ JsGt(view.avgValue, view.minValue)
    /\ JsGt(view.maxValue, view.avgValue)

\* C9: the total change is (last - first) / |first| * 100 for a series of
\* two or more values, first and last being the values of the earliest and
\* the latest year, and 0 for a shorter series.
C9_TotalChange ==
    Rendered =>
        IF Len(Series) >= 2
          THEN LET first == ByYear(Series)[1]
                   last == ByYear(Series)[Len(Series)]
               IN view.totalChange =
                     JsTimes(JsDiv(JsSub(last, first), MathAbs(first)), 100)
          ELSE view.totalChange = Num(0)

\* C9 witness: the years come out of order in the response, the first value
\* is negative and the total change is a positive number
C9_Witness ==
    /\ Rendered
    /\ Len(Series) >= 2
    /\ Series[1][1] > Series[2][1]
    /\ ByYear(Series)[1].num < 0
    /\ ByYear(Series)[1] # Series[1][2]
    /\ view.totalChange.kind = "finite"
    /\ view.totalChange.num > 0

\* C10: every table row after the first shows the change from the previous
\* year and the percent change; only the first row shows '-' in the two
\* columns.
C10_TableRows ==
    Rendered =>
        \A index \in DOMAIN view.table :
            LET row == view.table[index]
            IN IF index = 1
                 THEN row.change = [text |-> "-"] /\ row.percentChange = [text |-> "-"]
                 ELSE LET previous == view.table[index - 1].value
                          change == JsSub(row.value, previous)
                      IN /\ row.change = change
                         /\ row.percentChange =
                               JsTimes(JsDiv(change, MathAbs(previous)), 100)

\* the chart shows exactly the members of the JSON object obj: one label per
\* member name, the data value at a label being the member of that name
Charts(chart, obj) ==
    /\ Len(chart.labels) = Len(obj)
    /\ Len(chart.data) = Len(chart.labels)
    /\ {chart.labels[i] : i \in DOMAIN chart.labels} = {obj[k][1] : k \in DOMAIN obj}
    /\ \A i \in DOMAIN chart.labels :
          \E k \in DOMAIN obj : obj[k] = <<chart.labels[i], chart.data[i]>>

\* C11: the line chart and the bar chart have one label per year key of
\* results[0], the i-th data value being results[0][label i], so labels and
\* data are equally long; with an empty results list both are empty; the
\* elements of results after the first are not charted.
C11_ChartArrays ==
    Rendered =>
        /\ Charts(view.lineChartData, Series)
        /\ Charts(view.barChartData, Series)

\* C11 witness: a series of three years, delivered out of order and followed
\* by another series, has been charted
C11_Witness ==
    /\ Rendered
    /\ Len(results.results) = 2
    /\ Len(Series) = 3
    /\ Series[1][1] > Series[2][1]
    /\ results.results[2] # Series
    /\ Len(view.lineChartData.labels) = 3
    /\ Len(view.barChartData.data) = 3

\* C21: for a series of n >= 1 years the year-over-year chart has n - 1
\* points, the i-th labelled 'year i -> year i+1', and each point equals the
\* percent change shown in the table row of the later year.
C21_ChartMatchesTable ==
    (Rendered /\ Len(Series) >= 1) =>
        /\ Len(view.yoyChartData.labels) = Len(Series) - 1
        /\ Len(view.yoyChartData.data) = Len(Series) - 1
        /\ \A i \in 1..(Len(Series) - 1) :
              /\ view.yoyChartData.labels[i]
                    = <<view.table[i].year, "->", view.table[i + 1].year>>
              /\ view.yoyChartData.data[i] = view.table[i + 1].percentChange

\* C20: for a series of two or more values the chip reads 'Growing' exactly
\* when the total change is greater than 0 and 'Declining' exactly when it
\* is less than 0.
C20_TrendAgrees ==
    (Rendered /\ Len(Series) >= 2) =>
        /\ view.trendChip = "Growing" <=>
              (view.totalChange = PosInf
                 \/ (view.totalChange.kind = "finite" /\ view.totalChange.num > 0))
        /\ view.trendChip = "Declining" <=>
              (view.totalChange = NegInf
                 \/ (view.totalChange.kind = "finite" /\ view.totalChange.num < 0))

----------------------------------------------------------------------------
(* The scenario manager in compare mode: the application with one scenario  *)
(* name to type, and the comparison controls.                              *)

NextCompare ==
    \/ \E newValue \in Tabs : HandleTabChange(newValue)
    \/ HandleSubmit
    \/ FetchOk
    \/ JsonOk
    \/ OpenSaveDialog
    \/ SetScenarioName(<<"Plan", " ", "B">>)
    \/ HandleSaveScenario
    \/ ToggleCompareMode
    \/ \E scenarioId \in ListedIds : ClickScenario(scenarioId)
    \/ \E scenarioId \in ListedIds : DeleteChip(scenarioId)

SpecCompare == Init /\ [][NextCompare]_vars

----------------------------------------------------------------------------
(* The parameter form and the request: the application without the         *)
(* scenario manager, with edits of the form's fields.                      *)

\* what the user types into the Capital Expenditure field
CapexInputs == { <<>>, <<12000>> }

\* the rate fields the user edits: <<schedule, index>>
RateFieldsEdited == { <<"gaPersonnelRates", 0>> }

\* what the user types into a rate field (the numeral of 0.05)
RateInputs == { <<500>> }

\* the item the user picks in the Analysis Line Item menu: the one that is
\* the line item of no predefined scenario
LineItemsPicked == {LINE_ITEM_OPTIONS[4]}

NextRequest ==
    \/ \E newValue \in {0, 1} : HandleTabChange(newValue)
    \/ LoadScenario(DEFAULT_SCENARIOS[2].name)
    \/ \E text \in CapexInputs : HandleInputChange("capex", JsNumber(text))
    \/ \E item \in LineItemsPicked : HandleInputChange("lineItem", item)
    \/ \E field \in RateFieldsEdited, text \in RateInputs :
          HandleRateChange(field[1], field[2], JsNumber(text))
    \/ HandleSubmit
    \/ FetchOk
    \/ FetchNotOk
    \/ FetchThrows
    \/ JsonOk
    \/ JsonThrows

SpecRequest == Init /\ [][NextRequest]_vars

\* every fetch settles (it resolves or rejects), and so does every
\* response.json()
SpecRequestFair ==
    /\ SpecRequest
    /\ WF_vars(FetchOk \/ FetchNotOk \/ FetchThrows)
    /\ WF_vars(JsonOk \/ JsonThrows)

\* C17: loading is true exactly while a request is in flight, and every
\* request leaves loading false once it has succeeded, got a response that
\* is not ok, or thrown.
C17_LoadingTracksRequest ==
    /\ [](loading <=> pc # "idle")
    /\ [][/\ Submits => loading'
          /\ (JsonOk \/ FetchNotOk \/ FetchThrows \/ JsonThrows) => ~loading']_vars
    /\ (loading ~> ~loading)

\* C17 witness: two requests have failed and loading is false again
C17_Witness ==
    /\ requests = 2
    /\ results = Null
    /\ pc = "idle"
    /\ ~loading

\* C23, as claimed: the response stored in results is always the response
\* to the most recently submitted request.
C23_ResultsAreLatest ==
    results # Null => results.response = requests

\* C23, amended: a request is submitted only while loading is false and no
\* request is in flight; a response that is stored is the response to the
\* most recently submitted request; results holds the response to a request
\* that was submitted, and changes in no other step.
C23_OneRequestInFlight ==
    /\ [](results # Null => results.response \in 1..requests)
    /\ [][/\ Submits => (~loading /\ pc = "idle" /\ body = Null
                           /\ requests' = requests + 1)
          /\ results' # results =>
                (requests' = requests /\ results'.response = requests)]_vars

\* C23 witness: the second request was submitted after the first had ended,
\* and its response replaced the first one
C23_Witness ==
    /\ requests = 2
    /\ pc = "idle"
    /\ results # Null
    /\ results.response = 2
    /\ answered # Null

\* the elements of an array
Elements(array) == {array[i] : i \in DOMAIN array}

\* C24: the form's lineItem is one of LINE_ITEM_OPTIONS in every reachable
\* form state: the initial value and the lineItem of every predefined
\* scenario are among them, and so is the line item of every request.
C24_LineItemIsAnOption ==
    /\ InitialParameters.lineItem \in Elements(LINE_ITEM_OPTIONS)
    /\ \A k \in DOMAIN DEFAULT_SCENARIOS :
          DEFAULT_SCENARIOS[k].parameters.lineItem \in Elements(LINE_ITEM_OPTIONS)
    /\ parameters.lineItem \in Elements(LINE_ITEM_OPTIONS)
    /\ body # Null => Member(body.text, "lineItem") \in Elements(LINE_ITEM_OPTIONS)
    /\ answered # Null =>
          Member(answered.text, "lineItem") \in Elements(LINE_ITEM_OPTIONS)

\* C24 witness: a request carries a line item picked in the menu after a
\* preset with another line item was loaded
C24_Witness ==
    /\ body # Null
    /\ selectedScenario = DEFAULT_SCENARIOS[2].name
    /\ Member(body.text, "lineItem") = LINE_ITEM_OPTIONS[4]
    /\ Member(body.text, "lineItem") # DEFAULT_SCENARIOS[2].parameters.lineItem

\* the fields of the parameter form
FormFields ==
    {"capex", "existingLeases", "existingPPELife", "newPPELife",
     "gaPersonnelRates", "gaNonPersonnelRates", "rdPersonnelRates",
     "rdNonPersonnelRates", "globalSaasCogs", "interestIncome", "lineItem",
     "callPurpose"}

\* C13: the body of a request is one object that holds every field of the
\* form with the value the form has at the click; the body of a request in
\* flight does not change, whatever is edited after the click.
C13_BodyIsFormState ==
    [][/\ Submits =>
            /\ Len(body'.text) = Cardinality(FormFields)
            /\ Names(body'.text) = FormFields
            /\ \A f \in FormFields : Member(body'.text, f) = parameters[f]
       /\ (pc # "idle" /\ pc' # "idle") => body' = body]_vars

\* C13 witness: a request is in flight for an edited form (a preset loaded,
\* capex and a rate typed), and the form was edited again after the click
C13_Witness ==
    /\ pc = "json"
    /\ tabValue = 0
    /\ Member(body.text, "capex") = 12000
    /\ Member(body.text, "gaPersonnelRates")[1] = 500
    /\ Member(body.text, "lineItem") = DEFAULT_SCENARIOS[2].parameters.lineItem
    /\ parameters.capex = 0

----------------------------------------------------------------------------
(* The parameter form alone: loads of predefined scenarios, edits of the   *)
(* fields and of the rate schedules, and tab changes, which mount the form *)
(* anew.                                                                   *)

RateTypes ==
    {"gaPersonnelRates", "gaNonPersonnelRates", "rdPersonnelRates",
     "rdNonPersonnelRates"}

\* the rate fields the user edits: the first and the last year of every
\* schedule
RateIndexes == {0, 4}

\* the names handed to loadScenario: the menu's items, and a name that is
\* none of them
ScenarioNamesChosen == PredefinedNames \cup { <<"Custom">> }

\* the edits of the other fields: <<field, new value>>
FieldEdits ==
    { <<"capex", JsNumber(<<>>)>>,
      <<"existingPPELife", JsNumber(<<20>>)>>,
      <<"lineItem", LINE_ITEM_OPTIONS[4]>>,
      <<"callPurpose", <<>> >> }

NextForm ==
    \/ \E newValue \in {0, 1} : HandleTabChange(newValue)
    \/ \E name \in ScenarioNamesChosen : LoadScenario(name)
    \/ \E edit \in FieldEdits : HandleInputChange(edit[1], edit[2])
    \/ \E rateType \in RateTypes, index \in RateIndexes, text \in RateInputs :
          HandleRateChange(rateType, index, JsNumber(text))

SpecForm == Init /\ [][NextForm]_vars

\* C15: each of the four rate schedules of the form has exactly 5 entries in
\* every reachable form state; handleRateChange replaces the entry at the
\* given index of the named schedule and leaves every other entry, schedule
\* and field unchanged.
C15_FiveRatesPerSchedule ==
    /\ [](\A rateType \in RateTypes : Len(parameters[rateType]) = 5)
    /\ [][\A rateType \in RateTypes, index \in RateIndexes, text \in RateInputs :
            HandleRateChange(rateType, index, JsNumber(text)) =>
               /\ Len(parameters'[rateType]) = Len(parameters[rateType])
               /\ parameters'[rateType][index + 1] = JsNumber(text)
               /\ \A i \in DOMAIN parameters[rateType] :
                     i # index + 1 => parameters'[rateType][i] = parameters[rateType][i]
               /\ \A f \in FormFields \ {rateType} : parameters'[f] = parameters[f]
               /\ DOMAIN parameters' = FormFields
               /\ selectedScenario' = selectedScenario]_vars

\* C15 witness: a preset was loaded, a field was edited and the first and
\* the last rate of two schedules were edited
C15_Witness ==
    /\ selectedScenario = DEFAULT_SCENARIOS[1].name
    /\ parameters.capex = 0
    /\ parameters.gaPersonnelRates[1] = 500
    /\ parameters.gaPersonnelRates[2] = 280
    /\ parameters.rdNonPersonnelRates[5] = 500
    /\ parameters.rdNonPersonnelRates[4] = 220

\* C16: choosing a predefined scenario sets capex, the four rate schedules,
\* globalSaasCogs, interestIncome and lineItem to the preset's values, sets
\* callPurpose to 'React UI - <name>' and selectedScenario to the name, and
\* keeps existingLeases, existingPPELife and newPPELife; a name that is not
\* the name of a predefined scenario changes nothing.
C16_LoadScenarioFrame ==
  /\ [](\A name \in ScenarioNamesChosen \ PredefinedNames :
          tabValue = 0 => ENABLED (LoadScenario(name) /\ UNCHANGED vars))
  /\ [][\A name \in ScenarioNamesChosen :
         LoadScenario(name) =>
            IF name \in PredefinedNames
              THEN \E k \in DOMAIN DEFAULT_SCENARIOS :
                     /\ DEFAULT_SCENARIOS[k].name = name
                     /\ \A f \in {"capex", "globalSaasCogs", "interestIncome",
                                   "lineItem"} \cup RateTypes :
                           parameters'[f] = DEFAULT_SCENARIOS[k].parameters[f]
                     /\ parameters'.callPurpose
                           = <<"React", " ", "UI", " ", "-", " ">> \o name
                     /\ selectedScenario' = name
                     /\ \A f \in {"existingLeases", "existingPPELife", "newPPELife"} :
                           parameters'[f] = parameters[f]
                     /\ DOMAIN parameters' = FormFields
              ELSE FALSE]_vars

\* C16 witness: a preset was loaded into a form whose PPE life had been
\* edited
C16_Witness ==
    /\ selectedScenario = DEFAULT_SCENARIOS[2].name
    /\ parameters.existingPPELife = 20
    /\ parameters.capex = DEFAULT_SCENARIOS[2].parameters.capex
    /\ parameters.callPurpose =
          <<"React", " ", "UI", " ", "-", " ", "Aggressive", " ", "Expansion">>

----------------------------------------------------------------------------
(* The scenario manager with its export: the application with one scenario *)
(* name to type, the saved scenarios as the ones to compare, and Export    *)
(* All.                                                                    *)

NextExport ==
    \/ \E newValue \in Tabs : HandleTabChange(newValue)
    \/ HandleSubmit
    \/ FetchOk
    \/ JsonOk
    \/ OpenSaveDialog
    \/ SetScenarioName(<<"Plan", " ", "B">>)
    \/ HandleSaveScenario
    \/ ToggleCompareMode
    \/ \E i \in DOMAIN scenarios : ClickScenario(scenarios[i].id)
    \/ ExportScenarios

SpecExport == Init /\ [][NextExport]_vars

\* a step that downloads an export
Exports == exported' # exported

\* C12: an export emits one JSON document that lists every saved scenario,
\* in store order; it leaves the scenario store, the compare selection and
\* the current results as they are; nothing is exported from an empty store.
C12_ExportIsReadOnly ==
    [][Exports =>
         /\ Len(scenarios) > 0
         /\ Len(exported'.text) = Len(scenarios)
         /\ \A i \in DOMAIN scenarios :
               /\ Member(exported'.text[i], "id") = scenarios[i].id
               /\ Member(exported'.text[i], "name") = scenarios[i].name
               /\ Member(exported'.text[i], "description") = scenarios[i].description
               /\ Member(exported'.text[i], "createdAt") = scenarios[i].createdAt
               /\ Member(Member(exported'.text[i], "results"), "results")
                     = scenarios[i].results.results
               /\ \A f \in DOMAIN scenarios[i].parameters :
                     Member(Member(exported'.text[i], "parameters"), f)
                       = scenarios[i].parameters[f]
         /\ scenarios' = scenarios
         /\ selectedScenarios' = selectedScenarios
         /\ results' = results]_vars

\* C12 witness: two different scenarios were exported while a comparison
\* was selected
C12_Witness ==
    /\ exported # Null
    /\ Len(exported.text) = 2
    /\ Member(exported.text[1], "id") # Member(exported.text[2], "id")
    /\ Len(selectedScenarios) = 2
    /\ Len(scenarios) = 2

\* C6: at most 3 scenarios are selected for comparison in every reachable
\* state.
C6_AtMostThreeSelected == Len(selectedScenarios) <= 3

\* C6 witness: three scenarios are selected and a fourth one is listed
C6_Witness ==
    /\ compareMode
    /\ Len(selectedScenarios) = 3
    /\ \E id \in ListedIds : ~Includes(selectedScenarios, id)

\* seq without its k-th element
Without(seq, k) == [i \in 1..(Len(seq) - 1) |-> IF i < k THEN seq[i] ELSE seq[i + 1]]

\* C19: in compare mode a click on a selected scenario removes its id, the
\* other ids keeping their order; a click on an unselected scenario appends
\* its id when fewer than 3 are selected; with 3 selected, a click on an
\* unselected scenario changes nothing.
C19_ClickToggles ==
    /\ [](\A id \in ListedIds :
            (tabValue = 2 /\ ~saveDialogOpen /\ compareMode
               /\ Len(selectedScenarios) = 3 /\ ~Includes(selectedScenarios, id))
            => ENABLED (ClickScenario(id) /\ UNCHANGED vars))
    /\ [][\A id \in ListedIds :
            ClickScenario(id) =>
               IF \E k \in DOMAIN selectedScenarios : selectedScenarios[k] = id
                 THEN \E k \in DOMAIN selectedScenarios :
                        /\ selectedScenarios[k] = id
                        /\ selectedScenarios' = Without(selectedScenarios, k)
                 ELSE /\ Len(selectedScenarios) < 3
                      /\ selectedScenarios' = selectedScenarios \o <<id>>]_vars

\* C19 witness: a saved scenario and then a predefined one are selected,
\* in the order of the clicks, not of the list
C19_Witness ==
    /\ compareMode
    /\ Len(selectedScenarios) = 2
    /\ \E i \in DOMAIN scenarios : selectedScenarios[1] = scenarios[i].id
    /\ selectedScenarios[2] = NameId(DEFAULT_SCENARIOS[3].name)

====
